---- MODULE Spec2Model ----
(***************************************************************************)
(* Model of quivr's linkage engine (src/quivr/linkage.py):                 *)
(*   ArrowArrayIndex  - value -> row positions index over one array        *)
(*   Linkage          - two tables linked through two key arrays           *)
(*   MultiKeyLinkage  - linkage over composite (struct) keys               *)
(*                                                                         *)
(* Arrow values.  An array is [type, vals]; a slot of vals is <<>> for a   *)
(* null and <<c>> for the content c.  A scalar is [type, value]; Arrow     *)
(* compares scalars by type and content.  A primitive type is a string, a  *)
(* struct type is the sequence of its fields [name, type] in declaration   *)
(* order and a struct value is the sequence of its children in that order. *)
(* A plain Python value is [py |-> c].  A table is [rows |-> <<...>>], the *)
(* rows being named by their original position.                            *)
(***************************************************************************)
EXTENDS Integers, Sequences, FiniteSets, TLC

VARIABLES mode,   \* which constructor the caller runs: "index", "linkage", "multi"
          args,   \* the constructor's arguments
          pc,     \* "new" (not yet constructed), "ready", "failed"
          self,   \* the instance's attributes (its __dict__) when the constructor exits
          err,    \* the exception the constructor raised, NoError if none
          last,   \* the last call made on the ready instance and what it returned
          iters   \* the generators handed out by iterate(), by caller slot

vars == <<mode, args, pc, self, err, last, iters>>

(* ------------------------------ bounds --------------------------------- *)
MaxLen == 3        \* longest array given to a bare ArrowArrayIndex
MaxRows == 2       \* most rows of a table / key array given to Linkage
MaxKeyRows == 1    \* most rows of a table / key array given to MultiKeyLinkage

KeyTypes == {"int64", "int32"}
Contents == {1, 2}
KeyNames == {"id", "time"}
KeyContents == {0, 1}
IterSlots == {"first", "second"}   \* the generators a caller holds at once

(* ------------------------------ helpers -------------------------------- *)
SeqsUpTo(S, n) == UNION {[1..k -> S] : k \in 0..n}

Range(s) == {s[i] : i \in DOMAIN s}

RECURSIVE SortedSeq(_)
SortedSeq(S) ==
    IF S = {} THEN <<>>
    ELSE LET m == CHOOSE x \in S : \A y \in S : x <= y
         IN <<m>> \o SortedSeq(S \ {m})

NoAttrs == [x \in {} |-> 0]
NoError == [exc |-> "", msg |-> "", k |-> ""]
NoCall == [op |-> "none"]

Raise(exc, msg, k) == [exc |-> exc, msg |-> msg, k |-> k]

(* ------------------------- pyarrow collaborators ----------------------- *)
\* len(array)
len(array) == Len(array.vals)

\* array.null_count
null_count(array) == Cardinality({i \in DOMAIN array.vals : array.vals[i] = <<>>})

\* array[i], 0-based: the scalar of the array's type at row i
At(array, i) == [type |-> array.type, value |-> array.vals[i + 1][1]]

\* isinstance(val, pa.Scalar)
IsScalar(val) == "type" \in DOMAIN val

\* pa.scalar(val) of a Python int: the type is inferred as int64
pa_scalar(val) == [type |-> "int64", value |-> val.py]

(* ------------------------------- tables -------------------------------- *)
Table(n) == [rows |-> [i \in 1..n |-> i - 1]]

table_len(table) == Len(table.rows)

\* table.take(indices): the given rows in the given order, as a new table
take(table, indices) ==
    [rows |-> [j \in 1..Len(indices) |-> table.rows[indices[j] + 1]]]

\* table.empty(): zero rows
empty(table) == [rows |-> <<>>]

(* --------------------------- ArrowArrayIndex --------------------------- *)
\* one turn of the loop of ArrowArrayIndex.__init__: row i is appended to the
\* list of its value, and the value is added to self.values
IndexStepDropsRepeat(acc, val, i) ==
    [index  |-> IF val \in DOMAIN acc.index
                THEN acc.index
                ELSE acc.index @@ (val :> <<i>>),
     values |-> acc.values \cup {val}]

IndexStep(acc, val, i) ==
    [index  |-> IF val \in DOMAIN acc.index
                THEN [acc.index EXCEPT ![val] = Append(@, i)]
                ELSE acc.index @@ (val :> <<i>>),
     values |-> acc.values \cup {val}]

RECURSIVE IndexLoop(_, _, _)
IndexLoopStopsEarly(array, i, acc) ==
    IF i >= len(array) - 1 THEN acc
    ELSE IndexLoop(array, i + 1, IndexStep(acc, At(array, i), i))

IndexLoop(array, i, acc) ==
    IF i >= len(array) THEN acc
    ELSE IndexLoop(array, i + 1, IndexStep(acc, At(array, i), i))

\* ArrowArrayIndex(array): [err, self], self being the index's attributes
\* index and values
ArrowArrayIndex(array) ==
    IF null_count(array) > 0
    THEN [err |-> Raise("ValueError", "Array must not contain null values to be an index", ""),
          self |-> [index |-> NoAttrs, values |-> {}]]
    ELSE [err |-> NoError,
          self |-> IndexLoop(array, 0, [index |-> NoAttrs, values |-> {}])]

Absent == [absent |-> TRUE]
Found(indices) == [absent |-> FALSE, indices |-> indices]

\* ArrowArrayIndex.get(val): the stored positions, or None
get(idx, val) ==
    IF val \in DOMAIN idx.index THEN Found(idx.index[val]) ELSE Absent

(* ------------------------------- Linkage ------------------------------- *)
LinkageAttrsLeftValues(left_table, right_table, left_index, right_index) ==
    [left_table |-> left_table, right_table |-> right_table,
     left_index |-> left_index, right_index |-> right_index,
     all_unique_values |-> left_index.values]

LinkageAttrs(left_table, right_table, left_index, right_index) ==
    [left_table |-> left_table, right_table |-> right_table,
     left_index |-> left_index, right_index |-> right_index,
     all_unique_values |-> left_index.values \cup right_index.values]

\* Linkage.__init__ run on an instance whose attributes so far are self0:
\* [err, self], self being the attributes when the constructor exits
Linkage_init_StoresFirst(self0, left_table, right_table, left_keys, right_keys) ==
    LET stored == [left_table |-> left_table, right_table |-> right_table] @@ self0
    IN IF null_count(left_keys) > 0
       THEN [err |-> Raise("ValueError", "Left keys must not contain null values", ""),
             self |-> stored]
       ELSE IF null_count(right_keys) > 0
       THEN [err |-> Raise("ValueError", "Right keys must not contain null values", ""),
             self |-> stored]
       ELSE IF len(left_keys) # table_len(left_table)
       THEN [err |-> Raise("ValueError", "Left keys must have the same length as the left table", ""),
             self |-> stored]
       ELSE IF len(right_keys) # table_len(right_table)
       THEN [err |-> Raise("ValueError", "Right keys must have the same length as the right table", ""),
             self |-> stored]
       ELSE [err |-> NoError,
             self |-> LinkageAttrs(left_table, right_table,
                                   ArrowArrayIndex(left_keys).self,
                                   ArrowArrayIndex(right_keys).self) @@ self0]

Linkage_init(self0, left_table, right_table, left_keys, right_keys) ==
    IF null_count(left_keys) > 0
    THEN [err |-> Raise("ValueError", "Left keys must not contain null values", ""),
          self |-> self0]
    ELSE IF null_count(right_keys) > 0
    THEN [err |-> Raise("ValueError", "Right keys must not contain null values", ""),
          self |-> self0]
    ELSE IF len(left_keys) # table_len(left_table)
    THEN [err |-> Raise("ValueError", "Left keys must have the same length as the left table", ""),
          self |-> self0]
    ELSE IF len(right_keys) # table_len(right_table)
    THEN [err |-> Raise("ValueError", "Right keys must have the same length as the right table", ""),
          self |-> self0]
    ELSE LET stored == [left_table |-> left_table, right_table |-> right_table] @@ self0
             li == ArrowArrayIndex(left_keys)
             ri == ArrowArrayIndex(right_keys)
         IN IF li.err # NoError THEN [err |-> li.err, self |-> stored]
            ELSE IF ri.err # NoError
            THEN [err |-> ri.err, self |-> [left_index |-> li.self] @@ stored]
            ELSE [err |-> NoError,
                  self |-> LinkageAttrs(left_table, right_table, li.self, ri.self) @@ self0]

\* Linkage._select_left(val)
_select_left_Unsorted(this, val) ==
    LET left_indices == get(this.left_index, val)
    IN IF left_indices.absent
       THEN empty(this.left_table)
       ELSE take(this.left_table,
                 [j \in 1..Len(left_indices.indices) |->
                     left_indices.indices[Len(left_indices.indices) + 1 - j]])

_select_left(this, val) ==
    LET left_indices == get(this.left_index, val)
    IN IF left_indices.absent
       THEN empty(this.left_table)
       ELSE take(this.left_table, left_indices.indices)

\* Linkage._select_right(val)
_select_right(this, val) ==
    LET right_indices == get(this.right_index, val)
    IN IF right_indices.absent
       THEN empty(this.right_table)
       ELSE take(this.right_table, right_indices.indices)

\* the conversion the public select methods apply to their argument
AsScalar(val) == IF IsScalar(val) THEN val ELSE pa_scalar(val)

\* Linkage.select_left(val), select_right(val), select(val), __len__()
select_left(this, val) == _select_left(this, AsScalar(val))

select_right(this, val) == _select_right(this, AsScalar(val))

select(this, val) == <<_select_left(this, AsScalar(val)), _select_right(this, AsScalar(val))>>

Linkage_len(this) == Cardinality(this.all_unique_values)

(* --------------------------- MultiKeyLinkage --------------------------- *)
\* A dict of key arrays is the sequence of its items [k, v] in insertion
\* order, the names k distinct.
keys(d) == {d[i].k : i \in DOMAIN d}

Lookup(d, k) == d[CHOOSE i \in DOMAIN d : d[i].k = k].v

\* _build_struct_array(keys): one struct per row, the fields named and ordered
\* as the dict's items
_build_struct_array(d) ==
    [type |-> [j \in DOMAIN d |-> [name |-> d[j].k, type |-> d[j].v.type]],
     vals |-> [i \in 1..len(d[1].v) |-> << [j \in DOMAIN d |-> d[j].v.vals[i][1]] >>]]

\* the checks of one turn of the loop of MultiKeyLinkage.__init__, in order
KeyCheckNullsFirst(k, left_array, right_array, left_table, right_table) ==
    IF null_count(left_array) > 0
    THEN Raise("ValueError", "Left key {k} must not contain null values", k)
    ELSE IF null_count(right_array) > 0
    THEN Raise("ValueError", "Right key {k} must not contain null values", k)
    ELSE IF left_array.type # right_array.type
    THEN Raise("TypeError", "Left key {k} and right key {k} must have the same type", k)
    ELSE IF len(left_array) # table_len(left_table)
    THEN Raise("ValueError", "Left key {k} must have the same length as the left table", k)
    ELSE IF len(right_array) # table_len(right_table)
    THEN Raise("ValueError", "Right key {k} must have the same length as the right table", k)
    ELSE NoError

KeyCheckValueError(k, left_array, right_array, left_table, right_table) ==
    IF left_array.type # right_array.type
    THEN Raise("ValueError", "Left key {k} and right key {k} must have the same type", k)
    ELSE IF null_count(left_array) > 0
    THEN Raise("ValueError", "Left key {k} must not contain null values", k)
    ELSE IF null_count(right_array) > 0
    THEN Raise("ValueError", "Right key {k} must not contain null values", k)
    ELSE IF len(left_array) # table_len(left_table)
    THEN Raise("ValueError", "Left key {k} must have the same length as the left table", k)
    ELSE IF len(right_array) # table_len(right_table)
    THEN Raise("ValueError", "Right key {k} must have the same length as the right table", k)
    ELSE NoError

KeyCheck(k, left_array, right_array, left_table, right_table) ==
    IF left_array.type # right_array.type
    THEN Raise("TypeError", "Left key {k} and right key {k} must have the same type", k)
    ELSE IF null_count(left_array) > 0
    THEN Raise("ValueError", "Left key {k} must not contain null values", k)
    ELSE IF null_count(right_array) > 0
    THEN Raise("ValueError", "Right key {k} must not contain null values", k)
    ELSE IF len(left_array) # table_len(left_table)
    THEN Raise("ValueError", "Left key {k} must have the same length as the left table", k)
    ELSE IF len(right_array) # table_len(right_table)
    THEN Raise("ValueError", "Right key {k} must have the same length as the right table", k)
    ELSE NoError

\* the loop over left_keys.keys(): [err, dtypes], dtypes as filled so far
RECURSIVE KeyLoop(_, _, _, _, _, _)
KeyLoop(i, dtypes, left_keys, right_keys, left_table, right_table) ==
    IF i > Len(left_keys) THEN [err |-> NoError, dtypes |-> dtypes]
    ELSE LET k == left_keys[i].k
             left_array == left_keys[i].v
             right_array == Lookup(right_keys, k)
             e == KeyCheck(k, left_array, right_array, left_table, right_table)
         IN IF e # NoError THEN [err |-> e, dtypes |-> dtypes]
            ELSE KeyLoop(i + 1, Append(dtypes, [name |-> k, type |-> left_array.type]),
                         left_keys, right_keys, left_table, right_table)

\* MultiKeyLinkage.__init__: [err, self]
MultiKeyLinkage_init(left_table, right_table, left_keys, right_keys) ==
    IF keys(left_keys) # keys(right_keys)
    THEN [err |-> Raise("ValueError", "Left and right key dictionaries must have the same keys", ""),
          self |-> NoAttrs]
    ELSE IF Len(left_keys) = 0
    THEN [err |-> Raise("ValueError", "Left and right key dictionaries must not be empty", ""),
          self |-> NoAttrs]
    ELSE LET loop == KeyLoop(1, <<>>, left_keys, right_keys, left_table, right_table)
         IN IF loop.err # NoError
            THEN [err |-> loop.err, self |-> [dtypes |-> loop.dtypes]]
            ELSE Linkage_init([dtypes |-> loop.dtypes, scalar_type |-> loop.dtypes],
                              left_table, right_table,
                              _build_struct_array(left_keys),
                              _build_struct_array(right_keys))

\* MultiKeyLinkage.key(**kwargs): [err, ret]; pa.scalar(kwargs, type=scalar_type)
\* fills the fields of scalar_type, in its order, from kwargs by name
key(this, kwargs) ==
    IF keys(kwargs) # {this.dtypes[j].name : j \in DOMAIN this.dtypes}
    THEN [err |-> Raise("ValueError", "Keys must match the linkage keys ({dtypes})", ""),
          ret |-> NoAttrs]
    ELSE [err |-> NoError,
          ret |-> [type |-> this.scalar_type,
                   value |-> [j \in DOMAIN this.scalar_type |->
                                 Lookup(kwargs, this.scalar_type[j].name)]]]

(* ------------------------------ the inputs ----------------------------- *)
Slots(C) == {<<>>} \cup {<<c>> : c \in C}

Arrays(T, C, n) == {[type |-> t, vals |-> v] : t \in T, v \in SeqsUpTo(Slots(C), n)}

Scalars(T, C) == {[type |-> t, value |-> c] : t \in T, c \in C}

PyValues(C) == {[py |-> c] : c \in C}

NameOrders == {o \in SeqsUpTo(KeyNames, Cardinality(KeyNames)) :
                  \A i, j \in DOMAIN o : i # j => o[i] # o[j]}

Dicts(V) == UNION {{[j \in DOMAIN o |-> [k |-> o[j], v |-> f[j]]] : f \in [DOMAIN o -> V]} :
                      o \in NameOrders}

\* A generator of iterate() with what its caller has seen of it: the values
\* yielded, their number n, and the rows of the left and right selections
\* yielded so far (lrows, rrows)
NewIter(state) ==
    [state |-> state, remaining |-> {}, yielded |-> {}, n |-> 0, lrows |-> 0, rrows |-> 0]

NoIter == NewIter("none")

\* Before the constructor runs there is no instance; the mode names the class
\* the caller is about to construct.
InitCommon ==
    /\ pc = "new"
    /\ args = NoAttrs
    /\ self = NoAttrs
    /\ err = NoError
    /\ last = NoCall
    /\ iters = [s \in IterSlots |-> NoIter]

InitIndex == mode = "index" /\ InitCommon

InitLinkage == mode = "linkage" /\ InitCommon

InitMulti == mode = "multi" /\ InitCommon

\* the arguments of Linkage(...) and MultiKeyLinkage(...)
Args(left_table, right_table, left_keys, right_keys) ==
    [left_table |-> left_table, right_table |-> right_table,
     left_keys |-> left_keys, right_keys |-> right_keys]

\* arrays of one type without nulls, of exactly n rows
FullArrays(t, C, n) == {[type |-> t, vals |-> v] : v \in [1..n -> Slots(C) \ {<<>>}]}

\* Key arrays of every shape (type, length, with or without a null): the
\* constructor of MultiKeyLinkage reads the contents of no array before its
\* checks have passed, so these carry the content 0 throughout, and a null, if
\* any, in row 0.
ShapeArrays(n) ==
    {[type |-> t, vals |-> [i \in 1..m |-> IF i = 1 /\ nul THEN <<>> ELSE <<0>>]] :
        t \in KeyTypes, m \in 0..n, nul \in BOOLEAN}

\* Key dicts that pass every check of MultiKeyLinkage.__init__: the names of
\* lo on both sides, the right side in the order ro, one type ty[k] per name,
\* no nulls, nl and nr rows; the contents are free.
WellFormedDicts(o, ty, n) ==
    {[j \in DOMAIN o |-> [k |-> o[j], v |-> [type |-> ty[o[j]], vals |-> c[o[j]]]]] :
        c \in [Range(o) -> [1..n -> Slots(KeyContents) \ {<<>>}]]}

(* ------------------------------ the calls ------------------------------ *)
\* ArrowArrayIndex(array)
IndexConstruct(array) ==
    /\ mode = "index" /\ pc = "new"
    /\ LET r == ArrowArrayIndex(array)
       IN /\ args' = [array |-> array]
          /\ err' = r.err
          /\ pc' = IF r.err = NoError THEN "ready" ELSE "failed"
          /\ self' = IF r.err = NoError THEN r.self ELSE NoAttrs
    /\ UNCHANGED <<mode, last, iters>>

\* index.get(val)
IndexGet(val) ==
    /\ mode = "index" /\ pc = "ready"
    /\ last' = [op |-> "get", arg |-> val, ret |-> get(self, val)]
    /\ UNCHANGED <<mode, args, pc, self, err, iters>>

\* Linkage(left_table, right_table, left_keys, right_keys)
LinkageConstruct(a) ==
    /\ mode = "linkage" /\ pc = "new"
    /\ LET r == Linkage_init(NoAttrs, a.left_table, a.right_table,
                             a.left_keys, a.right_keys)
       IN /\ args' = a
          /\ err' = r.err
          /\ pc' = IF r.err = NoError THEN "ready" ELSE "failed"
          /\ self' = r.self
    /\ UNCHANGED <<mode, last, iters>>

\* MultiKeyLinkage(left_table, right_table, left_keys, right_keys)
MultiConstruct(a) ==
    /\ mode = "multi" /\ pc = "new"
    /\ LET r == MultiKeyLinkage_init(a.left_table, a.right_table,
                                     a.left_keys, a.right_keys)
       IN /\ args' = a
          /\ err' = r.err
          /\ pc' = IF r.err = NoError THEN "ready" ELSE "failed"
          /\ self' = r.self
    /\ UNCHANGED <<mode, last, iters>>

IsLinkage == mode \in {"linkage", "multi"} /\ pc = "ready"

SelectLeft(val) ==
    /\ IsLinkage
    /\ last' = [op |-> "select_left", arg |-> val, ret |-> select_left(self, val)]
    /\ UNCHANGED <<mode, args, pc, self, err, iters>>

SelectRight(val) ==
    /\ IsLinkage
    /\ last' = [op |-> "select_right", arg |-> val, ret |-> select_right(self, val)]
    /\ UNCHANGED <<mode, args, pc, self, err, iters>>

Select(val) ==
    /\ IsLinkage
    /\ last' = [op |-> "select", arg |-> val, ret |-> select(self, val)]
    /\ UNCHANGED <<mode, args, pc, self, err, iters>>

\* len(linkage)
LenCall ==
    /\ IsLinkage
    /\ last' = [op |-> "len", ret |-> Linkage_len(self)]
    /\ UNCHANGED <<mode, args, pc, self, err, iters>>

\* linkage.iterate(): a new generator, bound to the caller's slot s; its body
\* has not started
Iterate(s) ==
    /\ IsLinkage
    /\ iters' = [iters EXCEPT ![s] = NewIter("created")]
    /\ last' = [op |-> "iterate", slot |-> s]
    /\ UNCHANGED <<mode, args, pc, self, err>>

\* the values the generator's loop over self.all_unique_values has yet to visit
Pending(it, this) ==
    IF it.state = "created" THEN this.all_unique_values ELSE it.remaining

NextItemPops(s) ==
    /\ IsLinkage
    /\ iters[s].state \in {"created", "running"}
    /\ IF self.all_unique_values = {}
       THEN /\ iters' = [iters EXCEPT ![s].state = "done", ![s].remaining = {}]
            /\ last' = [op |-> "stop", slot |-> s]
            /\ self' = self
       ELSE \E val \in self.all_unique_values :
            /\ iters' = [iters EXCEPT ![s] =
                            [state |-> "running",
                             remaining |-> self.all_unique_values \ {val},
                             yielded |-> @.yielded \cup {val}, n |-> @.n + 1,
                             lrows |-> @.lrows + table_len(_select_left(self, val)),
                             rrows |-> @.rrows + table_len(_select_right(self, val))]]
            /\ last' = [op |-> "next", slot |-> s,
                        ret |-> <<val, _select_left(self, val), _select_right(self, val)>>]
            /\ self' = [self EXCEPT !.all_unique_values = @ \ {val}]
    /\ UNCHANGED <<mode, args, pc, err>>

\* next(generator): the loop takes a value of the set, in the set's own order,
\* and yields it with its two selections; the loop over, the generator stops
NextItem(s) ==
    /\ IsLinkage
    /\ iters[s].state \in {"created", "running"}
    /\ LET pending == Pending(iters[s], self)
       IN IF pending = {}
          THEN /\ iters' = [iters EXCEPT ![s].state = "done", ![s].remaining = {}]
               /\ last' = [op |-> "stop", slot |-> s]
          ELSE \E val \in pending :
               /\ iters' = [iters EXCEPT ![s] =
                               [state |-> "running", remaining |-> pending \ {val},
                                yielded |-> @.yielded \cup {val}, n |-> @.n + 1,
                                lrows |-> @.lrows + table_len(_select_left(self, val)),
                                rrows |-> @.rrows + table_len(_select_right(self, val))]]
               /\ last' = [op |-> "next", slot |-> s,
                           ret |-> <<val, _select_left(self, val), _select_right(self, val)>>]
    /\ UNCHANGED <<mode, args, pc, self, err>>

\* linkage.key(**kwargs)
Key(kwargs) ==
    /\ mode = "multi" /\ pc = "ready"
    /\ LET r == key(self, kwargs)
       IN last' = [op |-> "key", arg |-> kwargs, err |-> r.err, ret |-> r.ret]
    /\ UNCHANGED <<mode, args, pc, self, err, iters>>

\* the keyword arguments callers give to key()
Kwargs == Dicts(KeyContents)

\* the values callers select by: typed scalars and plain Python values for a
\* Linkage; for a MultiKeyLinkage, the scalar that key() has just returned
SelectValues ==
    IF pc # "ready" THEN {}
    ELSE IF mode = "multi"
    THEN (IF last.op = "key" /\ last.err = NoError THEN {last.ret} ELSE {})
    ELSE Scalars(KeyTypes, Contents) \cup PyValues(Contents)

(* --------------------------- the specifications ------------------------ *)
\* the caller constructs a bare index over any array of up to MaxLen rows
IndexNew ==
    /\ pc = "new"
    /\ \E array \in Arrays(KeyTypes, Contents, MaxLen) : IndexConstruct(array)

\* the caller constructs a Linkage from any two tables and key arrays of up to
\* MaxRows rows
LinkageNew ==
    /\ pc = "new"
    /\ \E nl, nr \in 0..MaxRows :
       \E left_keys, right_keys \in Arrays(KeyTypes, Contents, MaxRows) :
          LinkageConstruct(Args(Table(nl), Table(nr), left_keys, right_keys))

\* the caller constructs a Linkage from int64 keys that pass its checks
LinkageNewValid ==
    /\ pc = "new"
    /\ \E nl, nr \in 0..MaxRows :
       \E left_keys \in FullArrays("int64", Contents, nl),
          right_keys \in FullArrays("int64", Contents, nr) :
          LinkageConstruct(Args(Table(nl), Table(nr), left_keys, right_keys))

\* the caller constructs a MultiKeyLinkage from key dicts of any shape
MultiNewAnyShape ==
    /\ pc = "new"
    /\ \E nl, nr \in 0..MaxKeyRows :
       \E left_keys, right_keys \in Dicts(ShapeArrays(MaxKeyRows)) :
          MultiConstruct(Args(Table(nl), Table(nr), left_keys, right_keys))

\* the caller constructs a MultiKeyLinkage from well-formed key dicts
MultiNewWellFormed ==
    /\ pc = "new"
    /\ \E nl, nr \in 0..MaxKeyRows, lo \in NameOrders \ {<<>>} :
       \E ro \in {o \in NameOrders : Range(o) = Range(lo)}, ty \in [Range(lo) -> KeyTypes] :
       \E left_keys \in WellFormedDicts(lo, ty, nl), right_keys \in WellFormedDicts(ro, ty, nr) :
          MultiConstruct(Args(Table(nl), Table(nr), left_keys, right_keys))

NextIndex ==
    \/ IndexNew
    \/ \E val \in Scalars(KeyTypes, Contents) : IndexGet(val)

NextLinkage ==
    \/ LinkageNew
    \/ \E val \in SelectValues : SelectLeft(val)
    \/ \E val \in SelectValues : SelectRight(val)
    \/ \E val \in SelectValues : Select(val)
    \/ LenCall
    \/ \E s \in {"first"} : Iterate(s)
    \/ \E s \in {"first"} : NextItem(s)

\* the calls on a ready instance: a Linkage walked by two generators at once,
\* a MultiKeyLinkage asked for keys and selections
NextIter ==
    \/ LinkageNewValid
    \/ MultiNewWellFormed
    \/ \E kwargs \in Kwargs : Key(kwargs)
    \/ \E val \in SelectValues : SelectLeft(val)
    \/ \E val \in SelectValues : SelectRight(val)
    \/ \E val \in SelectValues : Select(val)
    \/ LenCall
    \/ \E s \in IterSlots : mode = "linkage" /\ Iterate(s)
    \/ \E s \in IterSlots : NextItem(s)

NextMulti ==
    \/ MultiNewAnyShape
    \/ MultiNewWellFormed
    \/ \E kwargs \in Kwargs : Key(kwargs)
    \/ \E val \in SelectValues : SelectLeft(val)
    \/ \E val \in SelectValues : SelectRight(val)
    \/ \E val \in SelectValues : Select(val)
    \/ LenCall

\* construction and key(): every call that validates its arguments
NextErrors ==
    \/ LinkageNew
    \/ MultiNewAnyShape
    \/ MultiNewWellFormed
    \/ \E kwargs \in Kwargs : Key(kwargs)

SpecIndex == InitIndex /\ [][NextIndex]_vars

SpecLinkage == InitLinkage /\ [][NextLinkage]_vars

SpecIter == (InitLinkage \/ InitMulti) /\ [][NextIter]_vars

SpecMulti == InitMulti /\ [][NextMulti]_vars

SpecErrors == (InitLinkage \/ InitMulti) /\ [][NextErrors]_vars

(* ============================== the claims ============================= *)
\* the rows of a null-free array that hold val, ascending
RowsHolding(array, val) ==
    SortedSeq({i \in 0..(len(array) - 1) : At(array, i) = val})

\* the distinct values of a null-free array
ValuesOf(array) == {At(array, i) : i \in 0..(len(array) - 1)}

IndexReady == mode = "index" /\ pc = "ready"

LinkageReady == mode = "linkage" /\ pc = "ready"

\* what get(val) must return over the array
Expected_get(array, val) ==
    IF RowsHolding(array, val) = <<>> THEN Absent ELSE Found(RowsHolding(array, val))

\* C1: the index built from a null-free array returns from get(v), for every
\* scalar v, the ascending duplicate-free list of all rows i with A[i] == v,
\* and "absent" when no row holds v; equality is by type and content, so the
\* content of a row under another type is absent; the distinct values are the
\* key set of the positions mapping.
C1_IndexGet ==
    IndexReady =>
        /\ \A v \in Scalars(KeyTypes, Contents) :
              get(self, v) = Expected_get(args.array, v)
        /\ \A v \in Scalars(KeyTypes, Contents) :
              v.type # args.array.type => get(self, v) = Absent
        /\ self.values = DOMAIN self.index
        /\ last.op = "get" => last.ret = Expected_get(args.array, last.arg)

\* get() has found a value held by two rows or more, whose content is absent
\* under the other type
C1_Witness ==
    /\ IndexReady
    /\ last.op = "get"
    /\ ~last.ret.absent
    /\ Len(last.ret.indices) >= 2
    /\ \E t \in KeyTypes : get(self, [type |-> t, value |-> last.arg.value]) = Absent

\* the table a selection by val must return: the rows whose key is the scalar
\* val stands for, in ascending row order (zero rows when there are none)
Expected_select(table, key_array, val) ==
    [rows |-> [j \in DOMAIN RowsHolding(key_array, AsScalar(val)) |->
                  table.rows[RowsHolding(key_array, AsScalar(val))[j] + 1]]]

\* C2: on a ready Linkage select_left(v) is the left rows whose key equals v,
\* in ascending row order, and the zero-row table when v is not a left key;
\* select_right(v) likewise on the right; select(v) is the pair of both.
C2_Select ==
    LinkageReady =>
        /\ \A v \in SelectValues :
              /\ select_left(self, v) = Expected_select(args.left_table, args.left_keys, v)
              /\ select_right(self, v) = Expected_select(args.right_table, args.right_keys, v)
              /\ select(self, v) = <<select_left(self, v), select_right(self, v)>>
              /\ get(self.left_index, AsScalar(v)).absent => select_left(self, v) = empty(self.left_table)
              /\ ~get(self.left_index, AsScalar(v)).absent =>
                    select_left(self, v) = take(self.left_table, get(self.left_index, AsScalar(v)).indices)
        /\ last.op = "select_left" =>
              last.ret = Expected_select(args.left_table, args.left_keys, last.arg)
        /\ last.op = "select_right" =>
              last.ret = Expected_select(args.right_table, args.right_keys, last.arg)
        /\ last.op = "select" =>
              last.ret = <<Expected_select(args.left_table, args.left_keys, last.arg),
                           Expected_select(args.right_table, args.right_keys, last.arg)>>

\* select(v) has returned two left rows or more and no right row
C2_Witness ==
    /\ LinkageReady
    /\ last.op = "select"
    /\ Len(last.ret[1].rows) >= 2
    /\ last.ret[2].rows = <<>>

\* the union of the distinct left and right key values
UnionValues == ValuesOf(args.left_keys) \cup ValuesOf(args.right_keys)

\* C3: a complete run of iterate() yields one tuple (v, select_left(v),
\* select_right(v)) for each value of the union of the distinct left and right
\* key values and no other: len() tuples, no value twice; a value of one side
\* only comes with rows of that side and a zero-row table of the other.
C3_Iterate ==
    LinkageReady =>
        /\ Linkage_len(self) = Cardinality(UnionValues)
        /\ \A s \in IterSlots :
              /\ iters[s].yielded \subseteq UnionValues
              /\ iters[s].n = Cardinality(iters[s].yielded)
              /\ iters[s].state = "done" =>
                    /\ iters[s].yielded = UnionValues
                    /\ iters[s].n = Linkage_len(self)
        /\ last.op = "next" =>
              /\ last.ret[1] \in UnionValues
              /\ last.ret[2] = Expected_select(args.left_table, args.left_keys, last.ret[1])
              /\ last.ret[3] = Expected_select(args.right_table, args.right_keys, last.ret[1])
              /\ last.ret[1] \notin ValuesOf(args.right_keys) =>
                    last.ret[2].rows # <<>> /\ last.ret[3].rows = <<>>
              /\ last.ret[1] \notin ValuesOf(args.left_keys) =>
                    last.ret[3].rows # <<>> /\ last.ret[2].rows = <<>>

\* an iteration over three values or more has run to its end, a value of the
\* left side only and a value of the right side only among them
C3_Witness ==
    /\ LinkageReady
    /\ iters["first"].state = "done"
    /\ iters["first"].n >= 3
    /\ ValuesOf(args.left_keys) \ ValuesOf(args.right_keys) # {}
    /\ ValuesOf(args.right_keys) \ ValuesOf(args.left_keys) # {}

\* the values of an index under whose positions row i is listed
GroupsOf(idx, i) == {v \in DOMAIN idx.index : i \in Range(idx.index[v])}

\* C10: the row groups partition each table: every row of the left table is
\* listed under exactly one value of the left index, every row of the right
\* table under exactly one value of the right index; so over a complete
\* iteration the left selections have len(left_table) rows in all, the right
\* selections len(right_table), and no tuple has two empty selections.
C10_Partition ==
    LinkageReady =>
        /\ \A i \in 0..(table_len(self.left_table) - 1) :
              Cardinality(GroupsOf(self.left_index, i)) = 1
        /\ \A i \in 0..(table_len(self.right_table) - 1) :
              Cardinality(GroupsOf(self.right_index, i)) = 1
        /\ \A s \in IterSlots : iters[s].state = "done" =>
              /\ iters[s].lrows = table_len(self.left_table)
              /\ iters[s].rrows = table_len(self.right_table)
        /\ last.op = "next" => last.ret[2].rows # <<>> \/ last.ret[3].rows # <<>>

\* a complete iteration has summed two left rows and two right rows over two
\* values or more
C10_Witness ==
    /\ LinkageReady
    /\ iters["first"].state = "done"
    /\ iters["first"].n >= 2
    /\ iters["first"].lrows >= 2
    /\ iters["first"].rrows >= 2

(* ------------------------- the error conditions ------------------------ *)
\* the condition an exception's message names
ErrorKind(e) ==
    CASE e.msg \in {"Array must not contain null values to be an index",
                    "Left keys must not contain null values",
                    "Right keys must not contain null values",
                    "Left key {k} must not contain null values",
                    "Right key {k} must not contain null values"} -> "NullKeyValue"
      [] e.msg \in {"Left keys must have the same length as the left table",
                    "Right keys must have the same length as the right table",
                    "Left key {k} must have the same length as the left table",
                    "Right key {k} must have the same length as the right table"} -> "LengthMismatch"
      [] e.msg = "Left key {k} and right key {k} must have the same type" -> "KeyTypeMismatch"
      [] e.msg \in {"Left and right key dictionaries must have the same keys",
                    "Keys must match the linkage keys ({dtypes})"} -> "KeyNameMismatch"
      [] e.msg = "Left and right key dictionaries must not be empty" -> "EmptyKeySet"
      [] OTHER -> "none"

HasNull(array) == \E i \in DOMAIN array.vals : array.vals[i] = <<>>

Constructed == pc # "new"

\* the two violations of the arguments of Linkage(...)
AnyNull == HasNull(args.left_keys) \/ HasNull(args.right_keys)

AnyLengthMismatch ==
    \/ len(args.left_keys) # table_len(args.left_table)
    \/ len(args.right_keys) # table_len(args.right_table)

LinkageAttrNames ==
    {"left_table", "right_table", "left_index", "right_index", "all_unique_values"}

\* the instance is ready, its indexes and union built from the arguments
LinkageBuilt ==
    /\ pc = "ready"
    /\ err = NoError
    /\ LinkageAttrNames \subseteq DOMAIN self
    /\ self.left_table = args.left_table
    /\ self.right_table = args.right_table
    /\ self.left_index.values = ValuesOf(args.left_keys)
    /\ self.right_index.values = ValuesOf(args.right_keys)
    /\ self.all_unique_values = UnionValues

FailedWith(kind) == pc = "failed" /\ ErrorKind(err) = kind

\* C4 as stated: Linkage construction fails with LengthMismatch whenever a key
\* array's length differs from its table's, and with NullKeyValue whenever a
\* key array holds a null; a failing construction sets no attribute; otherwise
\* the instance is ready, indexes and union built.
C4_Original ==
    (mode = "linkage" /\ Constructed) =>
        /\ AnyLengthMismatch => FailedWith("LengthMismatch")
        /\ AnyNull => FailedWith("NullKeyValue")
        /\ pc = "failed" => self = NoAttrs
        /\ (~AnyLengthMismatch /\ ~AnyNull) => LinkageBuilt

\* C4 as amended: Linkage construction fails with NullKeyValue whenever a key
\* array holds a null, and with LengthMismatch whenever a key array's length
\* differs from its table's and neither key array holds a null (the nulls are
\* checked first); a failing construction sets no attribute; otherwise the
\* instance is ready, indexes and union built.
C4_Construct ==
    (mode = "linkage" /\ Constructed) =>
        /\ AnyNull => FailedWith("NullKeyValue")
        /\ (AnyLengthMismatch /\ ~AnyNull) => FailedWith("LengthMismatch")
        /\ pc = "failed" => self = NoAttrs
        /\ (~AnyLengthMismatch /\ ~AnyNull) => LinkageBuilt

\* a construction has failed on a length that differs
C4_Witness ==
    /\ mode = "linkage"
    /\ Constructed
    /\ AnyLengthMismatch
    /\ FailedWith("LengthMismatch")
    /\ self = NoAttrs

\* the violations of the arguments of MultiKeyLinkage(...)
NamesDiffer == keys(args.left_keys) # keys(args.right_keys)

BothEmpty == Len(args.left_keys) = 0 /\ Len(args.right_keys) = 0

SameNames == ~NamesDiffer /\ ~BothEmpty

TypeDiffers(k) == Lookup(args.left_keys, k).type # Lookup(args.right_keys, k).type

NullAt(k) == HasNull(Lookup(args.left_keys, k)) \/ HasNull(Lookup(args.right_keys, k))

LengthDiffers(k) ==
    \/ len(Lookup(args.left_keys, k)) # table_len(args.left_table)
    \/ len(Lookup(args.right_keys, k)) # table_len(args.right_table)

Violated(k) == TypeDiffers(k) \/ NullAt(k) \/ LengthDiffers(k)

\* the first name, in the left dict's order, under which a check fails
FirstViolated ==
    args.left_keys[CHOOSE j \in DOMAIN args.left_keys :
                      /\ Violated(args.left_keys[j].k)
                      /\ \A i \in 1..(j - 1) : ~Violated(args.left_keys[i].k)].k

\* a failing MultiKeyLinkage construction never reaches Linkage.__init__
BaseNotReached == pc = "failed" => DOMAIN self \cap LinkageAttrNames = {}

\* C5 as stated: MultiKeyLinkage construction fails with KeyNameMismatch when
\* the name sets differ, with EmptyKeySet when both dicts are empty, and, the
\* names being the same, with KeyTypeMismatch when the two arrays of a name
\* differ in type, NullKeyValue when one of them holds a null, LengthMismatch
\* when the length of one differs from its table's; a failing construction
\* never reaches the base construction.
C5_Original ==
    (mode = "multi" /\ Constructed) =>
        /\ NamesDiffer => FailedWith("KeyNameMismatch")
        /\ BothEmpty => FailedWith("EmptyKeySet")
        /\ SameNames => \A k \in keys(args.left_keys) :
              /\ TypeDiffers(k) => FailedWith("KeyTypeMismatch")
              /\ NullAt(k) => FailedWith("NullKeyValue")
              /\ LengthDiffers(k) => FailedWith("LengthMismatch")
        /\ BaseNotReached

\* C5 as amended: MultiKeyLinkage construction fails with KeyNameMismatch when
\* the name sets differ and with EmptyKeySet when both dicts are empty;
\* otherwise the names are checked in the left dict's order and the first name
\* that violates a check decides the error: KeyTypeMismatch when its two arrays
\* differ in type, else NullKeyValue when one of them holds a null, else
\* LengthMismatch; a failing construction never reaches the base construction,
\* and with no violation the instance is ready.
C5_Construct ==
    (mode = "multi" /\ Constructed) =>
        /\ NamesDiffer => FailedWith("KeyNameMismatch")
        /\ BothEmpty => FailedWith("EmptyKeySet")
        /\ (SameNames /\ \E k \in keys(args.left_keys) : Violated(k)) =>
              /\ err.k = FirstViolated
              /\ FailedWith(IF TypeDiffers(FirstViolated) THEN "KeyTypeMismatch"
                            ELSE IF NullAt(FirstViolated) THEN "NullKeyValue"
                            ELSE "LengthMismatch")
        /\ (SameNames /\ \A k \in keys(args.left_keys) : ~Violated(k)) => pc = "ready"
        /\ BaseNotReached

\* a construction has failed on the second name's types although an array of
\* that name also holds a null
C5_Witness ==
    /\ mode = "multi"
    /\ Constructed
    /\ SameNames
    /\ Len(args.left_keys) = 2
    /\ FailedWith("KeyTypeMismatch")
    /\ err.k = args.left_keys[2].k
    /\ NullAt(err.k)
    /\ BaseNotReached

\* the conditions the arguments of the construction violate
LinkageViolations ==
    (IF AnyNull THEN {"NullKeyValue"} ELSE {})
    \cup (IF AnyLengthMismatch THEN {"LengthMismatch"} ELSE {})

MultiViolations ==
    IF NamesDiffer THEN {"KeyNameMismatch"}
    ELSE IF BothEmpty THEN {"EmptyKeySet"}
    ELSE (IF \E k \in keys(args.left_keys) : TypeDiffers(k) THEN {"KeyTypeMismatch"} ELSE {})
         \cup (IF \E k \in keys(args.left_keys) : NullAt(k) THEN {"NullKeyValue"} ELSE {})
         \cup (IF \E k \in keys(args.left_keys) : LengthDiffers(k) THEN {"LengthMismatch"} ELSE {})

Violations == IF mode = "multi" THEN MultiViolations ELSE LinkageViolations

KeyFailed == last.op = "key" /\ last.err # NoError

\* the exceptions of three calls that each violate one condition only: a null
\* key, a key array longer than its table, two key arrays of different types
SampleErrors ==
    {Linkage_init(NoAttrs, Table(1), Table(0),
                  [type |-> "int64", vals |-> << <<>> >>],
                  [type |-> "int64", vals |-> <<>>]).err,
     Linkage_init(NoAttrs, Table(0), Table(0),
                  [type |-> "int64", vals |-> << <<1>> >>],
                  [type |-> "int64", vals |-> <<>>]).err,
     MultiKeyLinkage_init(Table(0), Table(0),
                  <<[k |-> "id", v |-> [type |-> "int64", vals |-> <<>>]]>>,
                  <<[k |-> "id", v |-> [type |-> "int32", vals |-> <<>>]]>>).err}

\* the class of an exception tells it from the exceptions of other conditions
ToldApartByClass(e) ==
    \A other \in SampleErrors : ErrorKind(other) # ErrorKind(e) => other.exc # e.exc

Raised(e, V) ==
    /\ ErrorKind(e) \in V
    /\ e.exc = IF ErrorKind(e) = "KeyTypeMismatch" THEN "TypeError" ELSE "ValueError"

MultiReady == mode = "multi" /\ pc = "ready"

\* the rows of a table of n rows whose value, in every key column of the dict
\* d, is the value kwargs gives under the column's name
MatchingRows(d, n, kwargs) ==
    SortedSeq({i \in 0..(n - 1) :
                  \A j \in DOMAIN d : d[j].v.vals[i + 1] = <<Lookup(kwargs, d[j].k)>>})

\* C7: on a ready MultiKeyLinkage key(**kwargs) fails with KeyNameMismatch when
\* the names given are not exactly the configured names, in whatever order
\* they are given; otherwise it returns a scalar k such that select_left(k) is
\* exactly the left rows whose value in every key column is the one given
\* under that name, and select_right(k) exactly the right rows so.
C7_Key ==
    (MultiReady /\ last.op = "key") =>
        IF keys(last.arg) # keys(args.left_keys)
        THEN last.err # NoError /\ ErrorKind(last.err) = "KeyNameMismatch"
        ELSE /\ last.err = NoError
             /\ select_left(self, last.ret).rows =
                   MatchingRows(args.left_keys, table_len(args.left_table), last.arg)
             /\ select_right(self, last.ret).rows =
                   MatchingRows(args.right_keys, table_len(args.right_table), last.arg)

\* the left row i and the right row j agree on every named key column
RowsAgree(i, j) ==
    \A k \in keys(args.left_keys) :
        Lookup(args.left_keys, k).vals[i + 1] = Lookup(args.right_keys, k).vals[j + 1]

\* C9: both composite arrays of a MultiKeyLinkage are made with the one
\* composite type, its fields in the order recorded at construction, also when
\* the right dict lists the names in another order than the left; so a left
\* row and a right row that agree on every named column carry equal composite
\* values and fall under the same value of the union.
C9_Composite ==
    MultiReady =>
        /\ \A v \in self.left_index.values \cup self.right_index.values :
              v.type = self.scalar_type
        /\ \A i \in 0..(table_len(args.left_table) - 1),
              j \in 0..(table_len(args.right_table) - 1) :
              RowsAgree(i, j) =>
                 \E v \in self.all_unique_values :
                    /\ i \in Range(select_left(self, v).rows)
                    /\ j \in Range(select_right(self, v).rows)

(* --------------------------------- frame ------------------------------- *)
\* the attributes of the instance as the constructor left them
AsConstructed ==
    IF mode = "multi"
    THEN MultiKeyLinkage_init(args.left_table, args.right_table,
                              args.left_keys, args.right_keys).self
    ELSE Linkage_init(NoAttrs, args.left_table, args.right_table,
                      args.left_keys, args.right_keys).self

\* what the last call returns when made right after construction
FreshResult ==
    CASE last.op = "select_left" -> select_left(AsConstructed, last.arg)
      [] last.op = "select_right" -> select_right(AsConstructed, last.arg)
      [] last.op = "select" -> select(AsConstructed, last.arg)
      [] last.op = "len" -> Linkage_len(AsConstructed)
      [] last.op = "key" -> key(AsConstructed, last.arg).ret
      [] last.op = "next" -> <<last.ret[1], _select_left(AsConstructed, last.ret[1]),
                               _select_right(AsConstructed, last.ret[1])>>

\* C8: after any sequence of select_left, select_right, select, iterate (run
\* to the end or not, two iterations interleaved), len and key calls on a
\* ready Linkage, the tables, the indexes and the union are as the constructor
\* left them; every call returns what it returns right after construction, and
\* every iterate() starts a fresh enumeration of the whole union, whatever the
\* earlier iterations have consumed.
C8_Frame ==
    IsLinkage =>
        /\ self = AsConstructed
        /\ last.op \in {"select_left", "select_right", "select", "len", "key", "next"} =>
              last.ret = FreshResult
        /\ \A s \in IterSlots :
              /\ iters[s].state = "created" =>
                    Pending(iters[s], self) = AsConstructed.all_unique_values
              /\ iters[s].state \in {"running", "done"} =>
                    /\ iters[s].remaining \cup iters[s].yielded = AsConstructed.all_unique_values
                    /\ iters[s].remaining \cap iters[s].yielded = {}
              /\ iters[s].state = "done" => iters[s].remaining = {}

\* two iterations are interleaved: one has run to its end, and the other,
\* started over after that, has yielded part of the union
C8_Witness ==
    /\ LinkageReady
    /\ iters["first"].state = "done"
    /\ iters["first"].n >= 2
    /\ iters["second"].state = "running"
    /\ iters["second"].n = 1
    /\ iters["second"].remaining # {}

====
